---- MODULE Spec2Model ----
(***************************************************************************)
(* A model of the drag-and-drop engine of src/src/droppable.tsx and its    *)
(* helpers in src/src/dom.ts.                                              *)
(*                                                                         *)
(* The page holds four Droppable containers and three draggable items.     *)
(* The state is the shared drag state of the context, the listeners the    *)
(* effects of every Droppable have installed, the timers they have         *)
(* scheduled, the inline styles of the items and the placeholders.         *)
(* One step is one task of the browser's event loop: a pointer event with  *)
(* the handlers it runs, a timer callback, or a transitionend event.  A    *)
(* change of the shared state re-renders every Droppable within the same   *)
(* step (render, effect cleanups and effects).                             *)
(***************************************************************************)
EXTENDS Integers, Sequences, FiniteSets, TLC

NULL == "null"

(***************************************************************************)
(* The page: containers, their props and their rectangles; the items,      *)
(* their sizes and margins.  Coordinates are pixels.                       *)
(***************************************************************************)
Containers == {"A", "B", "D", "E"}

Items == {"a1", "a2", "b1"}

\* DroppableProps of each container, and the container element's rectangle
\* and padding as getBoundingClientRect / getComputedStyle report them.
Props ==
  [c \in Containers |->
     CASE c = "A" -> [direction |-> "vertical", droppableGroupID |-> "g1", disabled |-> FALSE,
                      top |-> 1, left |-> 1, width |-> 4, height |-> 8,
                      paddingTop |-> 1, paddingLeft |-> 1]
       [] c = "B" -> [direction |-> "horizontal", droppableGroupID |-> "g1", disabled |-> FALSE,
                      top |-> 10, left |-> 1, width |-> 12, height |-> 4,
                      paddingTop |-> 1, paddingLeft |-> 1]
       [] c = "D" -> [direction |-> "vertical", droppableGroupID |-> "g1", disabled |-> TRUE,
                      top |-> 1, left |-> 6, width |-> 4, height |-> 4,
                      paddingTop |-> 0, paddingLeft |-> 0]
       [] c = "E" -> [direction |-> "vertical", droppableGroupID |-> "g2", disabled |-> FALSE,
                      top |-> 1, left |-> 11, width |-> 4, height |-> 4,
                      paddingTop |-> 0, paddingLeft |-> 0]]

\* The item elements of each container, in document order.
ItemList ==
  [c \in Containers |->
     CASE c = "A" -> <<"a1", "a2">>
       [] c = "B" -> <<"b1">>
       [] OTHER -> <<>>]

\* Border box and margins of each item element.
ItemBox ==
  [i \in Items |->
     CASE i = "a1" -> [width |-> 2, height |-> 2, marginTop |-> 0, marginBottom |-> 0,
                       marginLeft |-> 0, marginRight |-> 0]
       [] i = "a2" -> [width |-> 2, height |-> 1, marginTop |-> 0, marginBottom |-> 0,
                       marginLeft |-> 0, marginRight |-> 0]
       [] i = "b1" -> [width |-> 2, height |-> 2, marginTop |-> 1, marginBottom |-> 0,
                       marginLeft |-> 1, marginRight |-> 0]]

\* The container whose markup holds item i.
ContainerOf(i) == CHOOSE c \in Containers : \E k \in 1..Len(ItemList[c]) : ItemList[c][k] = i

\* window.innerHeight and window.innerWidth.
Viewport == [innerHeight |-> 16, innerWidth |-> 16]

\* Positions the pointer can carry the dragged item's top-left corner to.
DragPositions ==
  { [top |-> 3, left |-> 2],     \* inside A
    [top |-> 11, left |-> 4],    \* inside B
    [top |-> 10, left |-> 4],    \* on B's top edge
    [top |-> 2, left |-> 7],     \* inside D
    [top |-> 2, left |-> 12] }   \* inside E

\* Rectangles of the element under the pointer (its top-left corner) and pointer
\* positions a move sample can carry.
TargetRects ==
  { [top |-> -1, left |-> -1], [top |-> 2, left |-> 3], [top |-> 3, left |-> 4],
    [top |-> 5, left |-> 6] }

Pointers == { [clientX |-> 1, clientY |-> 1], [clientX |-> 12, clientY |-> 12] }

\* The order in which React commits the effects of the Droppable components.
ContainerOrder == <<"A", "B", "D", "E">>

\* Droppable.defaultProps.transitionTimeout, in ms.
transitionTimeout == 200

\* Droppable.defaultProps.debounceTimeout, in ms.
debounceTimeout == 0

\* The observation counts the onDragEnd calls of a session up to this number.
MaxCommits == 2

\* The drag sessions a behaviour starts, and the pointer moves of one session.
MaxSessions == 1

MaxMoves == 2

VARIABLES
  state,               \* the context's drag state (useDragDropContext().state)
  unsubscribers,       \* state.unsubscribers: the handlers whose unsubscribe was pushed
  listeners,           \* document listeners in registration order, with their closures
  transitionListeners, \* handleTransitionEnd listeners waiting on a nearest node
  timers,              \* pending setTimeout callbacks in registration order
  nodes,               \* per container: the memoised item list
  nearestNodeRef,      \* per container: nearestNodeRef.current
  scope,               \* per container: what scope.removePlaceholder is
  placeholders,        \* per container: placeholder elements attached to it
  transform,           \* per item: inline transform written by the reorder pass
  transition,          \* per item: whether an inline transition is set
  running,             \* per item: whether a transform transition is in flight
  target,              \* the dragged element: position, transform, mounted, and
                       \* where its settle transition started while it runs
  pointerDown,         \* whether the pointer that started the drag is still down
  log                  \* observation: what the last step did, what the session reported

vars == <<state, unsubscribers, listeners, transitionListeners, timers, nodes, nearestNodeRef,
          scope, placeholders, transform, transition, running, target, pointerDown, log>>

\* The variables as one record, so that the steps of a handler compose.
\* seeFrom tells whether the step finds the dragged element, when its settle
\* transition is running, still where the transition started.
\* layout holds the rectangles of the item elements when the step is a call
\* on a page whose layout is given, not the one of the containers above.
World ==
  [state |-> state, unsubscribers |-> unsubscribers, listeners |-> listeners,
   transitionListeners |-> transitionListeners, timers |-> timers, nodes |-> nodes,
   nearestNodeRef |-> nearestNodeRef, scope |-> scope, placeholders |-> placeholders,
   transform |-> transform, transition |-> transition, running |-> running,
   target |-> target, pointerDown |-> pointerDown, log |-> log, seeFrom |-> FALSE,
   layout |-> [given |-> FALSE, rects |-> <<>>]]

\* The next state is the world w, computed once.
Becomes(w) ==
  \E next \in {w} :
    /\ state' = next.state
    /\ unsubscribers' = next.unsubscribers
    /\ listeners' = next.listeners
    /\ transitionListeners' = next.transitionListeners
    /\ timers' = next.timers
    /\ nodes' = next.nodes
    /\ nearestNodeRef' = next.nearestNodeRef
    /\ scope' = next.scope
    /\ placeholders' = next.placeholders
    /\ transform' = next.transform
    /\ transition' = next.transition
    /\ running' = next.running
    /\ target' = next.target
    /\ pointerDown' = next.pointerDown
    /\ log' = next.log

\* F of the value of e: e is computed once, however often F refers to it.
Strict(e, F(_)) == CHOOSE r \in {F(x) : x \in {e}} : TRUE

(***************************************************************************)
(* Sequences                                                               *)
(***************************************************************************)
IndexOf(s, x) == IF \E k \in 1..Len(s) : s[k] = x
                 THEN CHOOSE k \in 1..Len(s) : s[k] = x /\ \A j \in 1..(k - 1) : s[j] # x
                 ELSE 0

Range(s) == {s[k] : k \in 1..Len(s)}

Keep(s, S) == SelectSeq(s, LAMBDA x : x \in S)

Drop(s, S) == SelectSeq(s, LAMBDA x : x \notin S)

MapContainers(S, f(_)) ==
  LET cs == Keep(ContainerOrder, S) IN [k \in 1..Len(cs) |-> f(cs[k])]

(***************************************************************************)
(* The context's state and what a Droppable derives from it                *)
(***************************************************************************)
\* The state resetState() restores.
initialState ==
  [isDragging |-> FALSE, activeDraggableID |-> NULL, activeDroppableID |-> NULL,
   activeDroppableGroupID |-> NULL]

isActiveGroup(st, c) ==
  ~Props[c].disabled /\ Props[c].droppableGroupID = st.activeDroppableGroupID

isActive(st, c) == isActiveGroup(st, c) /\ c = st.activeDroppableID

isDragging(st, c) == st.isDragging /\ isActive(st, c)

(***************************************************************************)
(* dom.ts                                                                  *)
(***************************************************************************)
\* A getItemNodes that collects the item elements of the whole document.
getItemNodesOfDocument(c) == ItemList["A"] \o ItemList["B"]

getItemNodes(c) == ItemList[c]

detectIsActiveDraggableNode(node, activeDraggableID) == node = activeDraggableID

getNodeSize(i) ==
  [nodeWidth |-> ItemBox[i].width + ItemBox[i].marginLeft + ItemBox[i].marginRight,
   nodeHeight |-> ItemBox[i].height + ItemBox[i].marginTop + ItemBox[i].marginBottom]

\* A getThreshold that takes a pointer at half the viewport for the first half.
getThresholdFirstHalf(rect, pointer) ==
  [thresholdY |-> IF rect.top > 0 THEN rect.top
                  ELSE IF 2 * pointer.clientY <= Viewport.innerHeight THEN 0
                  ELSE Viewport.innerHeight,
   thresholdX |-> IF rect.left > 0 THEN rect.left
                  ELSE IF 2 * pointer.clientX <= Viewport.innerWidth THEN 0
                  ELSE Viewport.innerWidth]

getThreshold(rect, pointer) ==
  [thresholdY |-> IF rect.top > 0 THEN rect.top
                  ELSE IF 2 * pointer.clientY < Viewport.innerHeight THEN 0
                  ELSE Viewport.innerHeight,
   thresholdX |-> IF rect.left > 0 THEN rect.left
                  ELSE IF 2 * pointer.clientX < Viewport.innerWidth THEN 0
                  ELSE Viewport.innerWidth]

\* utils.safeNumber on the integers of this model.
safeNumber(x) == x

(***************************************************************************)
(* Layout: what getBoundingClientRect and getComputedStyle report          *)
(***************************************************************************)
\* The dragged element is taken out of the flow and follows the pointer.
Floating(w, i) == w.state.isDragging /\ w.state.activeDraggableID = i

RECURSIVE FlowBefore(_, _, _)
\* The extent, on c's axis, of the in-flow items before position k.
FlowBefore(w, c, k) ==
  IF k <= 1 THEN 0
  ELSE LET j == ItemList[c][k - 1]
           size == IF Floating(w, j) THEN 0
                   ELSE IF Props[c].direction = "vertical" THEN getNodeSize(j).nodeHeight
                   ELSE getNodeSize(j).nodeWidth
       IN FlowBefore(w, c, k - 1) + size

getBoundingClientRect(w, i) ==
  IF w.layout.given THEN w.layout.rects[i]
  ELSE IF Floating(w, i)
  THEN IF w.seeFrom /\ w.target.settling
       THEN [top |-> w.target.fromTop, left |-> w.target.fromLeft,
             width |-> ItemBox[i].width, height |-> ItemBox[i].height]
       ELSE [top |-> w.target.top, left |-> w.target.left,
             width |-> ItemBox[i].width, height |-> ItemBox[i].height]
  ELSE LET c == ContainerOf(i)
           k == IndexOf(ItemList[c], i)
           vertical == Props[c].direction = "vertical"
           tx == IF w.transform[i].has THEN w.transform[i].x ELSE 0
           ty == IF w.transform[i].has THEN w.transform[i].y ELSE 0
       IN [top |-> Props[c].top + Props[c].paddingTop + ItemBox[i].marginTop + ty
                   + (IF vertical THEN FlowBefore(w, c, k) ELSE 0),
           left |-> Props[c].left + Props[c].paddingLeft + ItemBox[i].marginLeft + tx
                    + (IF vertical THEN 0 ELSE FlowBefore(w, c, k)),
           width |-> ItemBox[i].width, height |-> ItemBox[i].height]

\* window.getComputedStyle(node).transform !== 'none' for an item element.
hasComputedTransform(w, i) ==
  IF Floating(w, i) THEN w.target.hasTransform
  ELSE w.transform[i].has \/ w.running[i]

noTransform == [has |-> FALSE, x |-> 0, y |-> 0]


(***************************************************************************)
(* Closures: a listener or a timer callback with the values it captured    *)
(* from the render that created it.                                        *)
(***************************************************************************)
Closure(kind, c, activeDraggableID, group, active, node, delay) ==
  [kind |-> kind, c |-> c, activeDraggableID |-> activeDraggableID,
   isActiveGroup |-> group, isActive |-> active, node |-> node, delay |-> delay]

\* A document listener installed by an effect of container c in the render of
\* state st.
Listener(kind, c, st) ==
  Closure(kind, c, st.activeDraggableID, isActiveGroup(st, c), isActive(st, c), NULL, 0)

\* A setTimeout callback of container c.
Timer(kind, c, activeDraggableID, node, delay) ==
  Closure(kind, c, activeDraggableID, FALSE, FALSE, node, delay)

\* setTimeout(callback, delay): the callback joins the pending timers.
setTimeout(w, timer) == [w EXCEPT !.timers = Append(@, timer)]

\* A pending timer may run once no timer registered before it with a delay
\* that is not longer is still pending.
CanFire(ts, k) == \A j \in 1..(k - 1) : ts[j].delay > ts[k].delay

\* utils.debounce(fn, timeout): a call cancels the pending call of the same
\* handler and schedules fn after the timeout.
debounce(world, l, timeout) == Strict(world, LAMBDA w :
  LET call == [l EXCEPT !.delay = timeout]
  IN setTimeout([w EXCEPT !.timers = Drop(@, {call})], call))

(***************************************************************************)
(* Inline styles of the item elements                                      *)
(***************************************************************************)
\* setStyles(node, {transition, transform: translate3d(x, y, 0)}).
setShift(w, n, x, y) ==
  LET new == [has |-> TRUE, x |-> x, y |-> y]
  IN [w EXCEPT !.transition[n] = TRUE,
               !.transform[n] = new,
               !.running[n] = IF w.transform[n] = new THEN @ ELSE transitionTimeout > 0]

\* removeStyles(node, ['transform']).
removeTransform(w, n) ==
  IF w.transform[n].has
  THEN [w EXCEPT !.transform[n] = noTransform,
                 !.running[n] = w.transition[n] /\ transitionTimeout > 0]
  ELSE w

\* removeStyles(x, ['transition', 'transform']) for every x in S.
removeStyles(w, S) ==
  [w EXCEPT !.transform = [n \in Items |-> IF n \in S THEN noTransform ELSE @[n]],
            !.transition = [n \in Items |-> IF n \in S THEN FALSE ELSE @[n]],
            !.running = [n \in Items |-> IF n \in S THEN FALSE ELSE @[n]]]

(***************************************************************************)
(* Observation: the calls the last step made, for the properties below.    *)
(***************************************************************************)
Observe(w, event) == [w EXCEPT !.log.events = Append(@, event)]

\* The uncaught TypeError of a call on null.
throwTypeError(w, where) == Observe(w, [kind |-> "TypeError", where |-> where])

(***************************************************************************)
(* Placeholder (usePlaceholderEffect)                                      *)
(***************************************************************************)
\* A scope.removePlaceholder that does not replace itself after its call.
removePlaceholderAgain(w, c) ==
  IF w.scope[c] = "remove"
  THEN IF w.placeholders[c] > 0
       THEN [w EXCEPT !.placeholders[c] = @ - 1]
       ELSE throwTypeError(w, "removePlaceholder")
  ELSE w

\* scope.removePlaceholder(): the closure the effect installed detaches the
\* placeholder from its parent and replaces itself with the no-op.
removePlaceholder(w, c) ==
  IF w.scope[c] = "remove"
  THEN IF w.placeholders[c] > 0
       THEN [w EXCEPT !.placeholders[c] = @ - 1, !.scope[c] = "noop"]
       ELSE throwTypeError(w, "removePlaceholder")
  ELSE w

\* The effect body for a container that is dragging.
insertPlaceholder(w, c) ==
  [w EXCEPT !.placeholders[c] = @ + 1, !.scope[c] = "remove"]


(***************************************************************************)
(* A render of every Droppable after the context's state became st, with   *)
(* the effect cleanups and effects whose dependencies changed.             *)
(***************************************************************************)
\* Placeholder effects that return no cleanup.
noPlaceholderCleanups(w, cs) == w

RECURSIVE placeholderCleanups(_, _)
\* usePlaceholderEffect's cleanup, () => scope.removePlaceholder(), per container.
placeholderCleanups(w, cs) ==
  IF cs = <<>> THEN w ELSE placeholderCleanups(removePlaceholder(w, Head(cs)), Tail(cs))

RECURSIVE placeholderEffects(_, _)
\* usePlaceholderEffect's body per container that is dragging.
placeholderEffects(w, cs) ==
  IF cs = <<>> THEN w ELSE placeholderEffects(insertPlaceholder(w, Head(cs)), Tail(cs))

RECURSIVE sensorListeners(_, _)
\* The listeners useMoveSensorEffect and useMoveEndSensorEffect install.
sensorListeners(cs, st) ==
  IF cs = <<>> THEN <<>>
  ELSE <<Listener("move", Head(cs), st), Listener("moveEnd", Head(cs), st)>>
       \o sensorListeners(Tail(cs), st)

\* Effects that keep their unsubscribe out of the registry.
noPushUnsubscribers(w, ls) == w

\* unsubscribers.push(unsubscribe) for every listener of ls.
pushUnsubscribers(w, ls) == [w EXCEPT !.unsubscribers = @ \cup Range(ls)]

\* document.addEventListener for every listener of ls.
addEventListeners(w, ls) == [w EXCEPT !.listeners = @ \o ls]

\* The unsubscribe closures of the listeners in S: removeEventListener.
removeEventListeners(w, S) == [w EXCEPT !.listeners = Drop(@, S)]

\* The layout effects (usePlaceholderEffect, useMoveSensorEffect,
\* useMoveEndSensorEffect), which depend on isDragging.
layoutEffects(world, changed, started) == Strict(world, LAMBDA w :
  LET sensors == {l \in Range(w.listeners) : l.kind \in {"move", "moveEnd"} /\ l.c \in changed}
      w1 == placeholderCleanups(w, Keep(ContainerOrder, changed))
      w2 == removeEventListeners(w1, sensors)
      w3 == placeholderEffects(w2, Keep(ContainerOrder, started))
      ls == sensorListeners(Keep(ContainerOrder, started), w.state)
  IN pushUnsubscribers(addEventListeners(w3, ls), ls))

\* A Droppable without the effect that clears a container that stopped dragging.
noClearEffects(world, stopped) == world

\* The effect of Droppable that clears the styles of a container that stopped
\* dragging: the timer it schedules.
clearEffects(world, stopped) == Strict(world, LAMBDA w :
  [w EXCEPT !.timers = @ \o MapContainers(stopped, LAMBDA c : Timer("clear", c, w.state.activeDraggableID, NULL, 0))])

\* useIntersectionEffect, which depends on isSomeDragging and activeDroppableID.
intersectionEffects(world, depsChanged) == Strict(world, LAMBDA w :
  IF ~depsChanged THEN w
  ELSE LET old == {l \in Range(w.listeners) : l.kind = "intersect"}
           w1 == removeEventListeners(w, old)
           ls == IF w.state.isDragging
                 THEN MapContainers(Containers, LAMBDA c : Listener("intersect", c, w.state))
                 ELSE <<>>
       IN pushUnsubscribers(addEventListeners(w1, ls), ls))

Render(world, st) == Strict(world, LAMBDA w :
  LET old == w.state
      changed == {c \in Containers : isDragging(old, c) # isDragging(st, c)}
      started == {c \in changed : isDragging(st, c)}
      depsChanged == old.isDragging # st.isDragging
                     \/ old.activeDroppableID # st.activeDroppableID
      w1 == [w EXCEPT !.state = st,
                      !.nodes = [c \in Containers |->
                                   IF c \in changed THEN getItemNodes(c) ELSE @[c]]]
  IN intersectionEffects(clearEffects(layoutEffects(w1, changed, started), changed \ started),
                         depsChanged))

\* mergeState of the context.
mergeState(w, st) == Render(w, st)

\* The dragged element when no drag is in progress: it is back in the flow.
idleTarget ==
  [top |-> 0, left |-> 0, hasTransform |-> FALSE, mounted |-> TRUE,
   settling |-> FALSE, fromTop |-> 0, fromLeft |-> 0]

\* resetState of the context: the initial state, with a fresh registry.
resetState(w) ==
  Render([w EXCEPT !.unsubscribers = {}, !.target = idleTarget], initialState)


(***************************************************************************)
(* The reorder pass                                                        *)
(***************************************************************************)
\* The closure map[direction] of a sibling, with a tie of the smallest gap
\* going to the sibling that comes later.
classifyLastWins(acc, fn, c, activeDraggableID) ==
  LET size == getNodeSize(activeDraggableID)
      vertical == Props[c].direction = "vertical"
      lead == IF vertical THEN fn.top ELSE fn.left
      threshold == IF vertical THEN fn.thresholdY ELSE fn.thresholdX
      diff == safeNumber(threshold - lead)
      wrote == [acc EXCEPT !.ops = Append(@, [op |-> "write", node |-> fn.node])]
  IN IF threshold <= lead
     THEN [wrote EXCEPT !.w = IF vertical THEN setShift(@, fn.node, 0, size.nodeHeight)
                              ELSE setShift(@, fn.node, size.nodeWidth, 0)]
     ELSE IF acc.nearestNode = NULL \/ diff <= acc.minimalDiff
     THEN [wrote EXCEPT !.w = removeTransform(@, fn.node),
                        !.minimalDiff = diff, !.nearestNode = fn.node]
     ELSE [wrote EXCEPT !.w = removeTransform(@, fn.node)]

\* The closure map[direction] of a sibling, shifting only the siblings whose
\* leading edge is past the threshold.
classifyPast(acc, fn, c, activeDraggableID) ==
  LET size == getNodeSize(activeDraggableID)
      vertical == Props[c].direction = "vertical"
      lead == IF vertical THEN fn.top ELSE fn.left
      threshold == IF vertical THEN fn.thresholdY ELSE fn.thresholdX
      diff == safeNumber(threshold - lead)
      wrote == [acc EXCEPT !.ops = Append(@, [op |-> "write", node |-> fn.node])]
  IN IF threshold < lead
     THEN [wrote EXCEPT !.w = IF vertical THEN setShift(@, fn.node, 0, size.nodeHeight)
                              ELSE setShift(@, fn.node, size.nodeWidth, 0)]
     ELSE IF acc.nearestNode = NULL \/ diff < acc.minimalDiff
     THEN [wrote EXCEPT !.w = removeTransform(@, fn.node),
                        !.minimalDiff = diff, !.nearestNode = fn.node]
     ELSE [wrote EXCEPT !.w = removeTransform(@, fn.node)]

\* The closure map[direction] the loop creates for a sibling, as fns.forEach
\* runs it: fn holds the sibling, the edges read from its rectangle and the
\* thresholds.  The sibling is shifted by the dragged item's size, or its
\* transform is removed and it is compared with the nearest candidate so far
\* (minimalDiff starts at Infinity: no candidate yet).
classify(acc, fn, c, activeDraggableID) ==
  LET size == getNodeSize(activeDraggableID)
      vertical == Props[c].direction = "vertical"
      lead == IF vertical THEN fn.top ELSE fn.left
      threshold == IF vertical THEN fn.thresholdY ELSE fn.thresholdX
      diff == safeNumber(threshold - lead)
      wrote == [acc EXCEPT !.ops = Append(@, [op |-> "write", node |-> fn.node])]
  IN IF threshold <= lead
     THEN [wrote EXCEPT !.w = IF vertical THEN setShift(@, fn.node, 0, size.nodeHeight)
                              ELSE setShift(@, fn.node, size.nodeWidth, 0)]
     ELSE IF acc.nearestNode = NULL \/ diff < acc.minimalDiff
     THEN [wrote EXCEPT !.w = removeTransform(@, fn.node),
                        !.minimalDiff = diff, !.nearestNode = fn.node]
     ELSE [wrote EXCEPT !.w = removeTransform(@, fn.node)]

\* The closure of the sibling node: what the loop body reads and computes.
readNode(acc, node, rect, pointer) ==
  LET nodeRect == getBoundingClientRect(acc.w, node)
      thr == getThreshold(rect, pointer)
  IN [node |-> node, top |-> safeNumber(nodeRect.top), left |-> safeNumber(nodeRect.left),
      thresholdY |-> thr.thresholdY, thresholdX |-> thr.thresholdX]

RECURSIVE collectFnsWriting(_, _, _, _, _, _, _)
\* A loop that runs the closure of each sibling as soon as it has read the
\* sibling's rectangle.
collectFnsWriting(acc, ns, k, c, activeDraggableID, rect, pointer) ==
  IF k > Len(ns) THEN acc
  ELSE
    LET node == ns[k]
        read == [acc EXCEPT !.ops = Append(@, [op |-> "read", node |-> node])]
        next == IF detectIsActiveDraggableNode(node, activeDraggableID) THEN acc
                ELSE classify(read, readNode(acc, node, rect, pointer), c, activeDraggableID)
    IN collectFnsWriting(next, ns, k + 1, c, activeDraggableID, rect, pointer)

RECURSIVE collectFns(_, _, _, _, _, _, _)
\* The loop over nodes: the dragged item is skipped; of every other sibling
\* the rectangle is read and its closure is pushed to fns.
collectFns(acc, ns, k, c, activeDraggableID, rect, pointer) ==
  IF k > Len(ns) THEN acc
  ELSE
    LET node == ns[k]
        next == IF detectIsActiveDraggableNode(node, activeDraggableID) THEN acc
                ELSE [acc EXCEPT !.fns = Append(@, readNode(acc, node, rect, pointer)),
                                 !.ops = Append(@, [op |-> "read", node |-> node])]
    IN collectFns(next, ns, k + 1, c, activeDraggableID, rect, pointer)

RECURSIVE runFns(_, _, _, _)
\* fns.forEach(fn => fn()).
runFns(acc, k, c, activeDraggableID) ==
  IF k > Len(acc.fns) THEN acc
  ELSE runFns(classify(acc, acc.fns[k], c, activeDraggableID), k + 1, c, activeDraggableID)

\* onMarkNearestNode of container c.
onMarkNearestNode(w, c, nearestNode) == [w EXCEPT !.nearestNodeRef[c] = nearestNode]

\* transformNodesByTarget with the options of container c's move sensor;
\* rect is the rectangle of the event's target.  ops is the order of the
\* rectangle reads and the style writes of the pass.
transformNodesByTarget(world, c, activeDraggableID, rect, pointer) == Strict(world, LAMBDA w :
  LET ns == w.nodes[c]
      start == [w |-> w, nearestNode |-> NULL, minimalDiff |-> 0, fns |-> <<>>,
                ops |-> <<[op |-> "read", node |-> "target"]>>]
      read == collectFns(start, ns, 1, c, activeDraggableID, rect, pointer)
      done == runFns(read, 1, c, activeDraggableID)
      shifted == \E n \in Items : done.w.transform[n].has
      w1 == Observe([done.w EXCEPT !.log.shifted = @ \/ shifted, !.log.fresh = @ \cup {c}],
                    [kind |-> "pass", c |-> c, state |-> w.state,
                     nearestNode |-> done.nearestNode,
                     activeDraggableID |-> activeDraggableID, nodes |-> ns,
                     targetRect |-> rect, pointer |-> pointer,
                     fns |-> done.fns, ops |-> done.ops,
                     before |-> [transform |-> w.transform, transition |-> w.transition,
                                 target |-> w.target]])
  IN onMarkNearestNode(w1, c, done.nearestNode))


(***************************************************************************)
(* Settle and commit                                                       *)
(***************************************************************************)
\* getActiveDraggableNode: the element with the dragged item's id, if mounted.
getActiveDraggableNode(w, activeDraggableID) ==
  IF Floating(w, activeDraggableID) /\ ~w.target.mounted THEN NULL ELSE activeDraggableID

\* onDragEnd of the context: the consumer receives the descriptor.
onDragEnd(w, descriptor) ==
  Observe([w EXCEPT !.log.commits = IF @ < MaxCommits THEN @ + 1 ELSE @],
          [kind |-> "onDragEnd", descriptor |-> descriptor])

\* handleDragEnd of container c; nearestNode is the one the settle used.
handleDragEnd(world, c, activeDraggableID, targetNode, nearestNode) == Strict(world, LAMBDA w :
  LET ns == w.nodes[c]
      sourceIdx == IndexOf(ns, activeDraggableID) - 1
      targetRect == getBoundingClientRect(w, targetNode)
      isMoving == sourceIdx = -1
      counted == {k \in 1..Len(ns) :
                    LET rect == getBoundingClientRect(w, ns[k])
                    IN IF Props[c].direction = "vertical"
                       THEN targetRect.top + targetRect.height > rect.top + rect.height
                       ELSE targetRect.left + targetRect.width > rect.left + rect.width}
      destinationIdx == Cardinality(counted)
      w1 == setTimeout(w, Timer("dragEnd", c, NULL, NULL, 0))
  IN onDragEnd(w1, [draggableID |-> activeDraggableID, droppableID |-> c,
                    droppableGroupID |-> Props[c].droppableGroupID,
                    sourceIdx |-> sourceIdx, destinationIdx |-> destinationIdx,
                    isMoving |-> isMoving, targetNode |-> targetNode,
                    nearestNode |-> nearestNode]))

\* A completion callback that reports the end of the drag twice.
onCompleteTwice(w, c, activeDraggableID, targetNode, nearestNode) ==
  handleDragEnd(handleDragEnd(w, c, activeDraggableID, targetNode, nearestNode),
                c, activeDraggableID, targetNode, nearestNode)

\* onComplete(targetNode) of the settle step: the onDragEnd option, which is
\* handleDragEnd of the container.
onComplete(w, c, activeDraggableID, targetNode, nearestNode) ==
  handleDragEnd(w, c, activeDraggableID, targetNode, nearestNode)

\* The callback handleDragEnd schedules.
dragEndTimeout(world, c) == Strict(world, LAMBDA w :
  resetState(removeStyles(removePlaceholder(w, c), Range(w.nodes[c]))))

\* setStyles(targetNode, {transition, transform: translate3D(0, 0, 0), top, left}).
setTargetStyles(w, targetNode, top, left) ==
  IF Floating(w, targetNode)
  THEN [w EXCEPT !.target.top = top, !.target.left = left, !.target.hasTransform = TRUE,
                 !.target.fromTop = IF w.target.settling THEN @ ELSE w.target.top,
                 !.target.fromLeft = IF w.target.settling THEN @ ELSE w.target.left,
                 !.target.settling = transitionTimeout > 0]
  ELSE setShift(w, targetNode, 0, 0)

applyTargetNodeTransition(world, c, activeDraggableID, targetNode, nearestNode) == Strict(world, LAMBDA w :
  IF targetNode = NULL THEN throwTypeError(w, "applyTargetNodeTransition")
  ELSE
    LET hasTransform == hasComputedTransform(w, targetNode)
        isVertical == Props[c].direction = "vertical"
        droppableTop == safeNumber(Props[c].top + Props[c].paddingTop)
        droppableLeft == safeNumber(Props[c].left + Props[c].paddingLeft)
        nearestRect == getBoundingClientRect(w, nearestNode)
        getVerticalDirectionOffset ==
          IF nearestNode # NULL
          THEN safeNumber(nearestRect.top + nearestRect.height
                          + ItemBox[targetNode].marginTop)
          ELSE droppableTop
        getHorizontalDirectionOffset ==
          IF nearestNode # NULL
          THEN safeNumber(nearestRect.left + nearestRect.width
                          + ItemBox[targetNode].marginLeft)
          ELSE droppableTop
        offset == IF isVertical THEN getVerticalDirectionOffset
                  ELSE getHorizontalDirectionOffset
        w0 == Observe(w, [kind |-> "offset", c |-> c, targetNode |-> targetNode,
                          nearestNode |-> nearestNode,
                          nearestRect |-> IF nearestNode # NULL THEN nearestRect
                                          ELSE [top |-> 0, left |-> 0, width |-> 0, height |-> 0],
                          offset |-> offset, hasTransform |-> hasTransform])
    IN IF hasTransform
       THEN LET w1 == IF isVertical THEN setTargetStyles(w0, targetNode, offset, droppableLeft)
                      ELSE setTargetStyles(w0, targetNode, droppableTop, offset)
            IN setTimeout(w1, Timer("settle", c, activeDraggableID, nearestNode,
                                    transitionTimeout))
       ELSE onComplete(w0, c, activeDraggableID, targetNode, nearestNode))

\* applyTransition of the release handler of container c.
applyTransition(w, c, activeDraggableID, nearestNode) ==
  applyTargetNodeTransition(Observe(w, [kind |-> "settle", c |-> c, nearestNode |-> nearestNode]),
                            c, activeDraggableID,
                            getActiveDraggableNode(w, activeDraggableID), nearestNode)

(***************************************************************************)
(* Handlers                                                                *)
(***************************************************************************)
\* unsubscribers.forEach(fn => fn()); unsubscribers.splice(0, unsubscribers.length).
drain(w) == [removeEventListeners(w, w.unsubscribers) EXCEPT !.unsubscribers = {}]

\* handleEvent of useMoveEndSensorEffect, the release handler l.
releaseHandler(world, l) == Strict(world, LAMBDA w :
  LET w0 == [drain(w) EXCEPT !.log.released = TRUE]
      nearestNode == w0.nearestNodeRef[l.c]
      hasTransform == nearestNode # NULL /\ hasComputedTransform(w0, nearestNode)
      w1 == Observe(w0, [kind |-> "release", c |-> l.c, nearestNode |-> nearestNode,
                         hasTransform |-> hasTransform,
                         activeDraggableID |-> l.activeDraggableID])
  IN IF nearestNode # NULL /\ hasTransform
     THEN [w1 EXCEPT !.transitionListeners =
                        @ \cup {[c |-> l.c, node |-> nearestNode,
                                 activeDraggableID |-> l.activeDraggableID]}]
     ELSE applyTransition(w1, l.c, l.activeDraggableID, nearestNode))

\* A handleTransitionEnd that starts the settle on any transitionend it receives.
handleAnyTransitionEnd(w, t, e) ==
  applyTransition([Observe(w, [kind |-> "transitionend", c |-> t.c, node |-> t.node,
                               target |-> e.target, propertyName |-> e.propertyName])
                     EXCEPT !.transitionListeners = @ \ {t}],
                  t.c, t.activeDraggableID, t.node)

\* handleTransitionEnd of the listener t, which the release handler added to
\* its nearest node, for the transitionend event e.
handleTransitionEnd(w, t, e) ==
  LET w1 == Observe(w, [kind |-> "transitionend", c |-> t.c, node |-> t.node,
                        target |-> e.target, propertyName |-> e.propertyName])
  IN IF e.target = t.node /\ e.propertyName = "transform"
     THEN applyTransition([w1 EXCEPT !.transitionListeners = @ \ {t}],
                          t.c, t.activeDraggableID, t.node)
     ELSE w1

\* onIntersect of container c.
onIntersect(world, c) == Strict(world, LAMBDA w :
  mergeState(Observe([w EXCEPT !.log.fresh = @ \ {c}],
                     [kind |-> "onIntersect", c |-> c, state |-> w.state]),
             [w.state EXCEPT !.activeDroppableID = c]))

\* handleEvent of useIntersectionEffect, as the debounce timer t runs it.
intersectionHandler(world, t) == Strict(world, LAMBDA w :
  IF ~t.isActiveGroup \/ t.isActive THEN w
  ELSE
    LET draggableNode == getActiveDraggableNode(w, t.activeDraggableID)
    IN IF draggableNode = NULL THEN throwTypeError(w, "useIntersectionEffect")
       ELSE
         LET draggableRect == getBoundingClientRect(w, draggableNode)
             draggableRectTop == safeNumber(draggableRect.top)
             draggableRectLeft == safeNumber(draggableRect.left)
             droppableRectTop == safeNumber(Props[t.c].top)
             droppableRectLeft == safeNumber(Props[t.c].left)
             droppableRectHeight == safeNumber(Props[t.c].height)
             droppableRectWidth == safeNumber(Props[t.c].width)
             isYaxesIntersected ==
               /\ draggableRectTop > droppableRectTop
               /\ draggableRectTop < droppableRectTop + droppableRectHeight
             isXaxesIntersected ==
               /\ draggableRectLeft > droppableRectLeft
               /\ draggableRectLeft < droppableRectLeft + droppableRectWidth
             w1 == Observe(w, [kind |-> "intersect", c |-> t.c, state |-> w.state,
                               rect |-> draggableRect,
                               intersected |-> isYaxesIntersected /\ isXaxesIntersected])
         IN IF isYaxesIntersected /\ isXaxesIntersected THEN onIntersect(w1, t.c) ELSE w1)


\* The default timeout of utils.debounce, which the move sensor relies on.
debounceDefaultTimeout == 0

RECURSIVE dispatchMove(_, _)
\* A mousemove or touchmove reaches the document listeners ls in order; each
\* is a debounced handler.
dispatchMove(world, ls) == Strict(world, LAMBDA w :
  IF ls = <<>> THEN w
  ELSE LET l == Head(ls)
           w1 == IF l.kind = "intersect" THEN debounce(w, l, debounceTimeout)
                 ELSE IF l.kind = "move" THEN debounce(w, l, debounceDefaultTimeout)
                 ELSE w
       IN dispatchMove(w1, Tail(ls)))

RECURSIVE dispatchRelease(_, _)
\* A mouseup or touchend reaches the release handlers of ls that are still
\* installed when their turn comes.
dispatchRelease(world, ls) == Strict(world, LAMBDA w :
  IF ls = <<>> THEN w
  ELSE LET l == Head(ls)
           w1 == IF l.kind = "moveEnd" /\ l \in Range(w.listeners)
                 THEN releaseHandler(w, l) ELSE w
       IN dispatchRelease(w1, Tail(ls)))

RECURSIVE dispatchTransitionEnd(_, _, _)
\* The transitionend event e reaches the handlers S on the element it passes.
dispatchTransitionEnd(w, S, e) ==
  IF S = {} THEN w
  ELSE LET t == CHOOSE x \in S : TRUE
       IN dispatchTransitionEnd(handleTransitionEnd(w, t, e), S \ {t}, e)

(***************************************************************************)
(* The state after every Droppable has mounted                             *)
(***************************************************************************)
initialLog ==
  [events |-> <<>>, commits |-> 0, released |-> FALSE, shifted |-> FALSE,
   sessions |-> 0, moves |-> 0, fresh |-> {}]

Init ==
  /\ state = initialState
  /\ unsubscribers = {}
  /\ listeners = <<>>
  /\ transitionListeners = {}
  /\ timers = <<>>
  /\ nodes = [c \in Containers |-> <<>>]
  /\ nearestNodeRef = [c \in Containers |-> NULL]
  /\ scope = [c \in Containers |-> "noop"]
  /\ placeholders = [c \in Containers |-> 0]
  /\ transform = [i \in Items |-> noTransform]
  /\ transition = [i \in Items |-> FALSE]
  /\ running = [i \in Items |-> FALSE]
  /\ target = idleTarget
  /\ pointerDown = FALSE
  /\ log = initialLog

(***************************************************************************)
(* Steps                                                                   *)
(***************************************************************************)
\* The world at the start of a step: nothing observed yet.
Now == [World EXCEPT !.log.events = <<>>]

\* The press on item i: the Draggable starts a session in i's container.
DragStart(i) ==
  /\ ~state.isDragging
  /\ ~pointerDown
  /\ ~Props[ContainerOf(i)].disabled
  /\ log.sessions < MaxSessions
  /\ LET rect == getBoundingClientRect(Now, i)
         w == [Now EXCEPT !.target = [idleTarget EXCEPT !.top = rect.top, !.left = rect.left,
                                                         !.fromTop = rect.top,
                                                         !.fromLeft = rect.left],
                            !.pointerDown = TRUE,
                            !.log = [initialLog EXCEPT !.sessions = log.sessions + 1]]
     IN Becomes(mergeState(w, [isDragging |-> TRUE, activeDraggableID |-> i,
                               activeDroppableID |-> ContainerOf(i),
                               activeDroppableGroupID |-> Props[ContainerOf(i)].droppableGroupID]))

\* A mousemove or touchmove: the dragged element follows the pointer to p.
PointerMove(p) ==
  /\ pointerDown \/ listeners # <<>>
  /\ log.moves < MaxMoves
  /\ LET w == IF pointerDown /\ state.isDragging
              THEN [Now EXCEPT !.target.top = p.top, !.target.left = p.left,
                                 !.target.fromTop = p.top, !.target.fromLeft = p.left,
                                 !.target.hasTransform = TRUE]
              ELSE Now
     IN Becomes(dispatchMove([w EXCEPT !.log.moves = @ + 1], listeners))

\* A mouseup or touchend.
Release ==
  /\ pointerDown \/ \E k \in 1..Len(listeners) : listeners[k].kind = "moveEnd"
  /\ Becomes(dispatchRelease([Now EXCEPT !.pointerDown = FALSE], listeners))

\* The timer at position k of the queue, removed from it.
Fires(k, kind) == k \in 1..Len(timers) /\ timers[k].kind = kind /\ CanFire(timers, k)

Popped(k) == [Now EXCEPT !.timers = [j \in 1..(Len(timers) - 1) |->
                                         IF j < k THEN timers[j] ELSE timers[j + 1]]]

\* Where a step may find the dragged element of world w: at the end of its
\* settle transition, or, while the transition runs, still at its start.
Views(w) == IF w.target.settling THEN BOOLEAN ELSE {FALSE}

\* The debounced intersection check of a container runs.
IntersectTimer(k) ==
  /\ Fires(k, "intersect")
  /\ \E seeFrom \in Views(Now) :
       Becomes(intersectionHandler([Popped(k) EXCEPT !.seeFrom = seeFrom], timers[k]))

\* The debounced move handler of a container runs the reorder pass.
MoveTimer(k, rect, pointer) ==
  /\ Fires(k, "move")
  /\ Becomes(transformNodesByTarget(Popped(k), timers[k].c, timers[k].activeDraggableID,
                                    rect, pointer))

\* The settle timer of applyTargetNodeTransition runs onComplete.  The
\* transition this timer was set with is over; one a later release started
\* may still run.
SettleTimer(k) ==
  /\ Fires(k, "settle")
  /\ LET later == \E j \in (k + 1)..Len(timers) : timers[j].kind = "settle"
         w == Observe([Popped(k) EXCEPT !.target.settling = @ /\ later],
                      [kind |-> "timeout", c |-> timers[k].c, delay |-> timers[k].delay])
     IN \E seeFrom \in Views(w) :
          Becomes(onComplete([w EXCEPT !.seeFrom = seeFrom], timers[k].c,
                             timers[k].activeDraggableID, timers[k].activeDraggableID,
                             timers[k].node))

\* The timer of handleDragEnd runs.
DragEndTimer(k) ==
  /\ Fires(k, "dragEnd")
  /\ Becomes(dragEndTimeout(Popped(k), timers[k].c))

\* The timer of the effect that clears a container that stopped dragging.
ClearTimer(k) ==
  /\ Fires(k, "clear")
  /\ Becomes(removeStyles(Popped(k),
                          {x \in Range(nodes[timers[k].c]) :
                             ~detectIsActiveDraggableNode(x, timers[k].activeDraggableID)}))

\* The transform transition of item n ends, and its transitionend is delivered.
TransitionEnd(n) ==
  /\ running[n]
  /\ Becomes(dispatchTransitionEnd([Now EXCEPT !.running[n] = FALSE],
                                   {t \in transitionListeners : t.node = n},
                                   [target |-> n, propertyName |-> "transform"]))

\* The transitionend events other than the end of item n's own transform
\* transition that pass item n: the end of another of its transitions, and the
\* events that bubble from an element inside it.
OtherTransitionEnds(n) ==
  { [target |-> n, propertyName |-> "opacity"],
    [target |-> "child", propertyName |-> "transform"],
    [target |-> "child", propertyName |-> "opacity"] }

\* Such an event is delivered to the handlers waiting on item n.
OtherTransitionEnd(n, e) ==
  /\ \E t \in transitionListeners : t.node = n
  /\ Becomes(dispatchTransitionEnd(Now, {t \in transitionListeners : t.node = n}, e))

\* The consumer unmounts the dragged element.
Unmount ==
  /\ state.isDragging
  /\ target.mounted
  /\ Becomes([Now EXCEPT !.target.mounted = FALSE])

Next ==
  \/ \E i \in Items : DragStart(i)
  \/ \E p \in DragPositions : PointerMove(p)
  \/ Release
  \/ \E k \in 1..Len(timers) : IntersectTimer(k)
  \/ \E k \in 1..Len(timers), rect \in TargetRects, pointer \in Pointers :
       MoveTimer(k, rect, pointer)
  \/ \E k \in 1..Len(timers) : SettleTimer(k)
  \/ \E k \in 1..Len(timers) : DragEndTimer(k)
  \/ \E k \in 1..Len(timers) : ClearTimer(k)
  \/ \E n \in Items : TransitionEnd(n)
  \/ \E n \in Items : \E e \in OtherTransitionEnds(n) : OtherTransitionEnd(n, e)

Spec == Init /\ [][Next]_vars

\* A pending timer runs: the event loop reaches every callback it has queued.
TimerFires ==
  \/ \E k \in 1..Len(timers) : IntersectTimer(k)
  \/ \E k \in 1..Len(timers), rect \in TargetRects, pointer \in Pointers :
       MoveTimer(k, rect, pointer)
  \/ \E k \in 1..Len(timers) : SettleTimer(k)
  \/ \E k \in 1..Len(timers) : DragEndTimer(k)
  \/ \E k \in 1..Len(timers) : ClearTimer(k)

\* Timers are never starved; pointer events and transitionend events come
\* when the page and the user produce them, or not at all.
FairSpec == Spec /\ WF_vars(TimerFires)

\* The same, in a page whose consumer may unmount the dragged element.
NextUnmount == Next \/ Unmount

SpecUnmount == Init /\ [][NextUnmount]_vars

(***************************************************************************)
(* A page on which a drag session has ended before.  The refs of a         *)
(* Droppable outlive the session: nearestNodeRef keeps what the last       *)
(* reorder pass of the container reported, nodes the list of its last      *)
(* render that changed isDragging.  Everything else is as after the mount. *)
(***************************************************************************)
\* What sessions of Spec leave behind: a1 dragged within A past a2; a1 dragged
\* from A past a2 into B past b1; a2 dragged within A past a1.
AfterSessions ==
  { [nearestNodeRef |-> [c \in Containers |-> IF c = "A" THEN "a2" ELSE NULL],
     nodes |-> [c \in Containers |-> IF c = "A" THEN ItemList[c] ELSE <<>>]],
    [nearestNodeRef |-> [c \in Containers |->
                           IF c = "A" THEN "a2" ELSE IF c = "B" THEN "b1" ELSE NULL],
     nodes |-> [c \in Containers |-> IF c \in {"A", "B"} THEN ItemList[c] ELSE <<>>]],
    [nearestNodeRef |-> [c \in Containers |-> IF c = "A" THEN "a1" ELSE NULL],
     nodes |-> [c \in Containers |-> IF c = "A" THEN ItemList[c] ELSE <<>>]] }

\* The state is the one an ended session r of AfterSessions leaves.
AfterSession(r) ==
  /\ state = initialState
  /\ unsubscribers = {}
  /\ listeners = <<>>
  /\ transitionListeners = {}
  /\ timers = <<>>
  /\ nodes = r.nodes
  /\ nearestNodeRef = r.nearestNodeRef
  /\ scope = [c \in Containers |-> "noop"]
  /\ placeholders = [c \in Containers |-> 0]
  /\ transform = [i \in Items |-> noTransform]
  /\ transition = [i \in Items |-> FALSE]
  /\ running = [i \in Items |-> FALSE]
  /\ target = idleTarget
  /\ pointerDown = FALSE

InitAgain == \E r \in AfterSessions : AfterSession(r) /\ log = initialLog

\* The session that follows.
SpecAgain == InitAgain /\ [][Next]_vars

(***************************************************************************)
(* transformNodesByTarget as the module exports it: called with a list of  *)
(* nodes, a target and a pointer of the caller's choice, on a page where   *)
(* the item elements are laid out in any way.                              *)
(***************************************************************************)
\* The calls of one behaviour.
MaxPasses == 2

\* The nodes option of a call.
PassNodes == { <<>>, <<"a1", "a2", "b1">>, <<"b1", "a2", "a1">> }

\* The rectangle an item element may have.
PassRects ==
  { [top |-> 1, left |-> 3, width |-> 1, height |-> 1],
    [top |-> 3, left |-> 1, width |-> 1, height |-> 1],
    [top |-> 2, left |-> 2, width |-> 1, height |-> 1] }

\* The rectangle of the target and the pointer of a call.
PassTargetRects ==
  { [top |-> -1, left |-> 3], [top |-> 0, left |-> 0], [top |-> 2, left |-> -1],
    [top |-> 3, left |-> 2] }

PassPointers == { [clientX |-> 7, clientY |-> 8], [clientX |-> 8, clientY |-> 7] }

\* One call of transformNodesByTarget with the direction and the
\* onMarkNearestNode of container c.
Pass(c, activeDraggableID, ns, rects, rect, pointer) ==
  /\ log.moves < MaxPasses
  /\ Becomes(transformNodesByTarget(
               [Now EXCEPT !.layout = [given |-> TRUE, rects |-> rects],
                           !.nodes[c] = ns, !.log.moves = @ + 1],
               c, activeDraggableID, rect, pointer))

NextPass ==
  \E c \in {"A", "B"}, activeDraggableID \in {"a1", "b1"}, ns \in PassNodes,
     rects \in [Items -> PassRects], rect \in PassTargetRects, pointer \in PassPointers :
    Pass(c, activeDraggableID, ns, rects, rect, pointer)

SpecPass == Init /\ [][NextPass]_vars

(***************************************************************************)
(* Properties                                                              *)
(***************************************************************************)
\* What the last step did.
Events == Range(log.events)

\* The descriptors the last step reported through onDragEnd.
Commits == {e.descriptor : e \in {x \in Events : x.kind = "onDragEnd"}}

\* C1: in every descriptor reported by onDragEnd, isMoving is true exactly
\* when the committing container is not the container the dragged item came
\* from; in the source container sourceIdx is the item's index in that
\* container's item list, in another container sourceIdx is -1.
C1_IsMovingIffOtherContainer ==
  \A d \in Commits :
    LET source == ContainerOf(d.draggableID)
    IN /\ d.isMoving = (d.droppableID # source)
       /\ d.droppableID = source =>
            d.sourceIdx = IndexOf(ItemList[source], d.draggableID) - 1 /\ d.sourceIdx >= 0
       /\ d.droppableID # source => d.sourceIdx = -1

\* C1's case: a1, dragged out of A, is committed by B.
C1_Witness ==
  \E d \in Commits : d.draggableID = "a1" /\ d.droppableID = "B" /\ d.isMoving

\* The nearest-node insertion point of a descriptor: the non-dragged siblings
\* up to and including the nearest node, none when there is no nearest node.
InsertionPoint(d) ==
  LET ns == ItemList[d.droppableID]
  IN IF d.nearestNode = NULL THEN 0
     ELSE Cardinality({k \in 1..IndexOf(ns, d.nearestNode) : ns[k] # d.draggableID})

\* C2: for every drop, the destinationIdx reported at commit equals the
\* nearest-node insertion point.
C2_DestinationIsInsertionPoint ==
  \A d \in Commits : d.destinationIdx = InsertionPoint(d)

\* C3: within one drag session onDragEnd reports the commit descriptor at
\* most once, whatever releases and transitionend events arrive.
C3_AtMostOneCommit == log.commits <= 1

\* C4: after a release during an active drag the commit descriptor is
\* eventually reported and the drag state is eventually reset, also when no
\* transitionend of the nearest node is ever delivered.
C4_ReleaseLeadsToCommitAndReset ==
  log.released ~> (log.commits >= 1 /\ ~state.isDragging)

\* Container c does not belong to the drag of state st: it is disabled, or
\* the drag is of another group.
Excluded(c, st) ==
  \/ Props[c].disabled
  \/ st.isDragging /\ Props[c].droppableGroupID # st.activeDroppableGroupID

\* C5: a container becomes active through intersection only when a drag is
\* in progress, it is not disabled and its group is the active group; a
\* disabled container or one of another group is never active and never runs
\* the reorder pass.
C5_OnlyEligibleContainersActivate ==
  /\ \A e \in Events :
       e.kind = "onIntersect" => e.state.isDragging /\ ~Excluded(e.c, e.state)
  /\ \A e \in Events : e.kind = "pass" => ~Excluded(e.c, e.state)
  /\ state.activeDroppableID # NULL => ~Excluded(state.activeDroppableID, state)

\* A session has ended and every callback it scheduled has run.
SessionOver ==
  /\ log.sessions >= 1
  /\ ~state.isDragging
  /\ timers = <<>>
  /\ transitionListeners = {}

Threw(w) == \E e \in Range(w.log.events) : e.kind = "TypeError"

\* C7: placeholder removal is idempotent: with no placeholder inserted it
\* changes nothing, and after an insertion two removals leave what one
\* leaves, no placeholder element, and raise no error.
C7_RemovePlaceholderIdempotent ==
  \A c \in Containers :
    LET once == removePlaceholder(Now, c)
        twice == removePlaceholder(once, c)
    IN /\ scope[c] = "noop" => once = Now
       /\ twice = once
       /\ once.placeholders[c] = 0
       /\ ~Threw(twice)

\* C7's case: a placeholder is inserted, and the commit timer that removes it
\* ahead of the effect cleanup is pending.
C7_Witness ==
  \E c \in Containers :
    /\ scope[c] = "remove"
    /\ placeholders[c] = 1
    /\ \E k \in 1..Len(timers) : timers[k].kind = "dragEnd" /\ timers[k].c = c

RECURSIVE Sum(_, _)
Sum(f, S) == IF S = {} THEN 0 ELSE LET x == CHOOSE y \in S : TRUE IN f[x] + Sum(f, S \ {x})

\* C8: at most one placeholder element exists across all containers, also
\* while the active container changes, and none once the state is idle.
C8_AtMostOnePlaceholder ==
  /\ \A c \in Containers : placeholders[c] >= 0
  /\ Sum(placeholders, Containers) <= 1
  /\ ~state.isDragging => Sum(placeholders, Containers) = 0

\* C8's case: the drag of a1 went over from A to B, which holds the placeholder.
C8_Witness ==
  /\ state.isDragging
  /\ state.activeDraggableID = "a1"
  /\ state.activeDroppableID = "B"
  /\ placeholders["B"] = 1

\* C9: the release handler's unsubscribe sequence, run a second time, leaves
\* what the first run left: no installed document listener and an empty
\* registry, no error; and calling the unsubscribe callbacks once more, as
\* the effect cleanups do, changes nothing.
C9_TeardownIdempotent ==
  LET once == drain(Now)
      twice == drain(once)
  IN /\ once.listeners = <<>>
     /\ once.unsubscribers = {}
     /\ twice = once
     /\ removeEventListeners(once, unsubscribers) = once
     /\ ~Threw(twice)

\* C9's case: a release handler has just drained a registry of listeners.
C9_Witness ==
  /\ \E e \in Events : e.kind = "release"
  /\ listeners = <<>>
  /\ unsubscribers = {}

\* C10: when the lookup of the dragged element returns nothing, the
\* intersection test and the settlement do nothing: no step raises an error.
C10_NullLookupRaisesNoError == ~Threw(World)

\* C11: a release whose nearest node exists and has a computed transform
\* other than none does not start the settle; every other release starts it
\* within the handler; and a settle that no release started directly is
\* started by a transitionend whose target is the nearest node the release
\* found and whose property is transform, never by another event.
C11_SettleWaitsForTransformEnd ==
  \A k \in 1..Len(log.events) :
    LET e == log.events[k]
        settled(j) == /\ j \in 1..Len(log.events)
                      /\ log.events[j].kind = "settle"
    IN /\ e.kind = "release" =>
            (settled(k + 1) <=> ~(e.nearestNode # NULL /\ e.hasTransform))
       /\ e.kind = "transitionend" =>
            (settled(k + 1) <=> (e.target = e.node /\ e.propertyName = "transform"))
       /\ e.kind = "settle" =>
            /\ k > 1
            /\ log.events[k - 1].kind \in {"release", "transitionend"}
            /\ log.events[k - 1].c = e.c
            /\ log.events[k - 1].kind = "release" => log.events[k - 1].nearestNode = e.nearestNode
            /\ log.events[k - 1].kind = "transitionend" => log.events[k - 1].node = e.nearestNode

\* C12: once a release handler has drained the listener registry, no reorder
\* pass and no intersection check runs for that session, those a debounced
\* handler had scheduled before the release included.
C12_NoSampleAfterDrain ==
  log.released => \A e \in Events : e.kind \notin {"pass", "intersect"}

\* C13: every listener the engine has installed (the move listeners of the
\* intersection and of the reorder sensors, the release listeners and the
\* transitionend wait on a nearest node) has its cleanup in the registry: one
\* drain of the registry leaves no listener of the engine installed.
C13_DrainRemovesEveryListener ==
  LET once == drain(Now)
  IN once.listeners = <<>> /\ once.transitionListeners = {}

\* The reorder pass of the last step, if it was one.
Passes == {e \in Events : e.kind = "pass"}

\* The leading edge of a sibling on the axis of the pass e, as the pass read
\* it, and the threshold on that axis.
Lead(e, fn) == IF Props[e.c].direction = "vertical" THEN fn.top ELSE fn.left

Threshold(e, fn) ==
  IF Props[e.c].direction = "vertical" THEN fn.thresholdY ELSE fn.thresholdX

\* C14: after a reorder pass every sibling other than the dragged item whose
\* leading edge is at or past the threshold carries a translate by the
\* dragged item's size along the axis of the container (its height when
\* vertical, its width when horizontal), every other such sibling carries no
\* transform, and nothing of the dragged item is written.
C14_SiblingsShiftedByFrozenSize ==
  \A e \in Passes :
    LET vertical == Props[e.c].direction = "vertical"
        size == getNodeSize(e.activeDraggableID)
        dragged == e.activeDraggableID
    IN /\ {e.fns[k].node : k \in 1..Len(e.fns)} = Range(e.nodes) \ {dragged}
       /\ \A k \in 1..Len(e.fns) :
            LET fn == e.fns[k]
            IN IF Lead(e, fn) >= Threshold(e, fn)
               THEN transform[fn.node] =
                      [has |-> TRUE, x |-> IF vertical THEN 0 ELSE size.nodeWidth,
                       y |-> IF vertical THEN size.nodeHeight ELSE 0]
               ELSE ~transform[fn.node].has
       /\ \A k \in 1..Len(e.ops) : e.ops[k].op = "write" => e.ops[k].node # dragged
       /\ transform[dragged] = e.before.transform[dragged]
       /\ transition[dragged] = e.before.transition[dragged]
       /\ target = e.before.target

\* C14's case: a pass over a list that holds the dragged item shifted one
\* sibling and released another.
C14_Witness ==
  \E e \in Passes :
    /\ e.activeDraggableID \in Range(e.nodes)
    /\ \E j, k \in 1..Len(e.fns) :
         /\ Lead(e, e.fns[j]) >= Threshold(e, e.fns[j])
         /\ Lead(e, e.fns[k]) < Threshold(e, e.fns[k])

\* The siblings of pass e that are not shifted, by their position in fns.
NotShifted(e) == {k \in 1..Len(e.fns) : Lead(e, e.fns[k]) < Threshold(e, e.fns[k])}

\* Those of them with the smallest gap.
Closest(e) ==
  {k \in NotShifted(e) :
     \A j \in NotShifted(e) :
       Threshold(e, e.fns[k]) - Lead(e, e.fns[k]) <= Threshold(e, e.fns[j]) - Lead(e, e.fns[j])}

\* C15: the nearest node a reorder pass reports is the sibling, among those
\* that are neither the dragged item nor shifted, with the smallest gap
\* between the threshold and its leading edge, the first of them in sibling
\* order when several have that gap, and none when every sibling is shifted.
C15_NearestIsFirstSmallestGap ==
  \A e \in Passes :
    /\ nearestNodeRef[e.c] = e.nearestNode
    /\ IF NotShifted(e) = {} THEN e.nearestNode = NULL
       ELSE \E k \in Closest(e) :
              /\ \A j \in Closest(e) : k <= j
              /\ e.nearestNode = e.fns[k].node
              /\ e.nearestNode # e.activeDraggableID

\* C15's case: two siblings tie for the smallest gap.
C15_Witness ==
  \E e \in Passes : Cardinality(Closest(e)) >= 2 /\ e.nearestNode # NULL

\* C17: in a reorder pass every read of a rectangle, of the target and of
\* each sibling, comes before the first style write.
C17_ReadsBeforeWrites ==
  \A e \in Passes :
    /\ e.ops[1] = [op |-> "read", node |-> "target"]
    /\ \A j, k \in 1..Len(e.ops) :
         (j < k /\ e.ops[j].op = "write") => e.ops[k].op = "write"
    /\ \A n \in Range(e.nodes) \ {e.activeDraggableID} :
         /\ \E k \in 1..Len(e.ops) : e.ops[k] = [op |-> "read", node |-> n]
         /\ \E k \in 1..Len(e.ops) : e.ops[k] = [op |-> "write", node |-> n]

\* C17's case: a pass over two siblings that sets the styles of the first and
\* removes those of the second: three reads, then two writes.
C17_Witness ==
  \E e \in Passes :
    /\ Len(e.fns) = 2
    /\ Len(e.ops) = 5
    /\ Lead(e, e.fns[1]) >= Threshold(e, e.fns[1])
    /\ Lead(e, e.fns[2]) < Threshold(e, e.fns[2])

\* C18: on each axis by itself getThreshold returns the leading edge of the
\* rectangle when it is positive, else 0 when the pointer coordinate is less
\* than half the extent of the viewport, else the extent of the viewport.
C18_ThresholdPerAxis ==
  \A e \in Passes :
    \A k \in 1..Len(e.fns) :
      /\ e.fns[k].thresholdY =
           IF e.targetRect.top > 0 THEN e.targetRect.top
           ELSE IF 2 * e.pointer.clientY < Viewport.innerHeight THEN 0
           ELSE Viewport.innerHeight
      /\ e.fns[k].thresholdX =
           IF e.targetRect.left > 0 THEN e.targetRect.left
           ELSE IF 2 * e.pointer.clientX < Viewport.innerWidth THEN 0
           ELSE Viewport.innerWidth

\* C18's case: the top edge is zero with the pointer at half the height of
\* the viewport, the left edge is zero with the pointer short of half its width.
C18_Witness ==
  \E e \in Passes :
    /\ Len(e.fns) > 0
    /\ e.targetRect.top = 0 /\ 2 * e.pointer.clientY = Viewport.innerHeight
    /\ e.targetRect.left = 0 /\ 2 * e.pointer.clientX < Viewport.innerWidth

\* C16: in every state the nearest-node reference of the active container,
\* which its release handler uses, is not the item being dragged, and no
\* release handler finds the dragged item in it, also in a session that
\* follows another one.
C16_NearestIsNeverTheDragged ==
  /\ state.isDragging => nearestNodeRef[state.activeDroppableID] # state.activeDraggableID
  /\ \A e \in Events : e.kind = "release" => e.nearestNode # e.activeDraggableID

\* C19: on either axis the offset the settle step computes along the axis of
\* the container is the trailing edge of the nearest node plus the leading
\* margin of the dragged item when there is a nearest node, and the padded
\* leading edge of the container on that axis when there is none.
C19_SettleOffsetOnBothAxes ==
  \A e \in Events :
    e.kind = "offset" =>
      LET vertical == Props[e.c].direction = "vertical"
          r == e.nearestRect
      IN e.offset =
           IF e.nearestNode # NULL
           THEN IF vertical THEN r.top + r.height + ItemBox[e.targetNode].marginTop
                ELSE r.left + r.width + ItemBox[e.targetNode].marginLeft
           ELSE IF vertical THEN Props[e.c].top + Props[e.c].paddingTop
                ELSE Props[e.c].left + Props[e.c].paddingLeft

\* The events of kind k among the events evs of a step, by position.
Of(evs, kind) == {k \in 1..Len(evs) : evs[k].kind = kind}

\* The settle timers pending in the queue ts.
SettleTimers(ts) == {k \in 1..Len(ts) : ts[k].kind = "settle"}

\* C20: every call of the settle step leads to one call of its completion
\* callback.  When the dragged element has no transform the callback runs
\* within the call, right after the offset is computed, and the call writes no
\* style; when it has one the call leaves one timer of transitionTimeout
\* pending and the callback runs when that timer does, not before.  No other
\* completion happens.
C20_CompletionExactlyOnce ==
  [][LET evs == log'.events
         calls == Of(evs, "offset")
         sync == {k \in calls : ~evs[k].hasTransform}
         timed == calls \ sync
         fired == Of(evs, "timeout")
         completions == Of(evs, "onDragEnd")
     IN /\ Cardinality(completions) = Cardinality(sync) + Cardinality(fired)
        /\ \A k \in sync : k + 1 \in completions /\ evs[k + 1].descriptor.droppableID = evs[k].c
        /\ \A k \in fired : /\ k + 1 \in completions
                             /\ evs[k + 1].descriptor.droppableID = evs[k].c
                             /\ evs[k].delay = transitionTimeout
        /\ \A k \in timed : k + 1 \notin completions
        /\ Cardinality(SettleTimers(timers')) =
             Cardinality(SettleTimers(timers)) + Cardinality(timed) - Cardinality(fired)
        /\ \A k \in SettleTimers(timers') : timers'[k].delay = transitionTimeout
        /\ (sync # {} /\ timed = {}) =>
             target' = target /\ transform' = transform /\ transition' = transition
    ]_vars

\* C20's case: the timer of a settle call has run and called the callback.
C20_Witness ==
  \E k \in 1..Len(log.events) :
    /\ log.events[k].kind = "timeout"
    /\ k < Len(log.events)
    /\ log.events[k + 1].kind = "onDragEnd"

\* The center of rectangle r lies strictly inside the rectangle of container
\* c on both axes (coordinates doubled, to stay in the integers).
CenterInside(r, c) ==
  /\ 2 * r.top + r.height > 2 * Props[c].top
  /\ 2 * r.top + r.height < 2 * (Props[c].top + Props[c].height)
  /\ 2 * r.left + r.width > 2 * Props[c].left
  /\ 2 * r.left + r.width < 2 * (Props[c].left + Props[c].width)

\* C21: an intersection check of a container of the active group that is not
\* the active one makes it the active one exactly when the center of the
\* dragged item's rectangle lies strictly inside the container's rectangle
\* on both axes.
C21_ActivatesWhenCenterInside ==
  \A e \in Events :
    e.kind = "intersect" =>
      ((\E o \in Events : o.kind = "onIntersect" /\ o.c = e.c) <=> CenterInside(e.rect, e.c))

\* C22: the nearest-node reference a release handler uses is none, or a
\* reorder pass of its container wrote it in this session since the container
\* last became the active one (log.fresh holds those containers): a release
\* never uses a reference left by an earlier session or an earlier activation.
C22_ReleaseUsesFreshNearest ==
  \A e \in Events :
    e.kind = "release" => (e.nearestNode = NULL \/ e.c \in log.fresh)

\* C11's case: a release was deferred, and a transitionend of another
\* property or of another target reached the waiting handler.
C11_Witness ==
  /\ transitionListeners # {}
  /\ \E e \in Events : /\ e.kind = "transitionend"
                        /\ (e.target # e.node \/ e.propertyName # "transform")

====
